---- MODULE Spec2Model ----
(***************************************************************************)
(* A model of the notebooks of                                             *)
(* 02_Knowledge_Bases_and_RAG/3_customized-rag-with-retrieve-api.ipynb:    *)
(* the retrieve / converse cells of the RAG notebook, and the data         *)
(* preparation notebook: its resource calls (create_bucket, create_role,   *)
(* create_policy, attach_role_policy, upload_file, %store), the            *)
(* record-building loops, dp_transform (filter + shuffle + slice) and      *)
(* jsonl_converter.                                                        *)
(*                                                                         *)
(* A Python str is a sequence of characters; a character is a TLA+ string  *)
(* ("NL" is the newline character, "Q" the double quote, "BS" the          *)
(* backslash).  A Python dict is a function from its keys, so a record     *)
(* without the key 'system' is a function whose DOMAIN lacks "system".     *)
(***************************************************************************)
EXTENDS Integers, Sequences, FiniteSets, TLC

VARIABLES
    pc,               \* position of the run
    rng,              \* state of the shared generator of the random module
    seed,             \* the generator state the kernel started with
    data_points,      \* dp_transform: argument
    num_dps,          \* dp_transform: argument
    max_dp_length,    \* dp_transform: argument
    shuffled,         \* dp_transform: local `lines` right after random.shuffle
    lines,            \* dp_transform: returned list
    outcome,          \* dp_transform: "none", "returned" or the exception raised
    file_name,        \* jsonl_converter: argument
    fs,               \* the local files: name -> sequence of characters
    dataset,          \* load_dataset result: split -> sequence of rows
    datapoints_train, datapoints_valid, datapoints_test,
    train, validation, test,
    events,           \* the SDK calls so far: invoke / return / raise, in order
    sent,             \* the requests the SDK sent for the latest call, in order
    attempt,          \* 0, or the number of the attempt that is under way
    stored,           \* the %store database: name -> value
    response,         \* notebook global `response`
    account_id, bucket_name, role_name, s3_bedrock_finetuning_access_policy,
    role_arn, policy_arn,
    s3_train_uri, s3_validation_uri, s3_test_uri,
    bedrock_kb_id, user_query, contexts, converse_request

\* The variables of the helpers and of the record-building cells.
data == <<rng, seed, data_points, num_dps, max_dp_length, shuffled, lines,
          outcome, file_name, fs, dataset, datapoints_train, datapoints_valid,
          datapoints_test, train, validation, test>>

\* The SDK side of a call.
sdk == <<events, sent, attempt>>

\* The globals of the resource cells of the data preparation notebook.
names == <<account_id, bucket_name, role_name, s3_bedrock_finetuning_access_policy>>
arns == <<role_arn, policy_arn>>
uris == <<s3_train_uri, s3_validation_uri, s3_test_uri>>

\* The globals of the RAG notebook.
rag == <<bedrock_kb_id, user_query, contexts, converse_request>>

\* Everything outside the helpers and the record-building cells.
ext == <<sdk, stored, response, names, arns, uris, rag>>

vars == <<pc, data, ext>>

(***************************************************************************)
(* Bounds of the model.                                                    *)
(***************************************************************************)
MaxDps == 3        \* longest list handed to dp_transform under SpecDp
MaxLimit == 4      \* largest max_dp_length tried under SpecDp
RngPeriod == 6     \* number of states of the abstract generator
MaxRows == 4       \* rows of the dataset, the three splits together
MaxDpLength == 5   \* the limit of the three calls of the run (20000, scaled)
NumTrain == 2      \* the count of the training call (1000, scaled)
NumValid == 1      \* the count of the validation call (100, scaled)
NumTest == 1       \* the count of the test call (10, scaled)
MaxRunRows == 1    \* rows of the dataset in a run of the whole notebook
MaxResults == 2    \* most retrieval results in a Retrieve response

Min(a, b) == IF a < b THEN a ELSE b
Max(a, b) == IF a > b THEN a ELSE b

Range(s) == {s[i] : i \in 1..Len(s)}

SeqsUpTo(S, n) == UNION {[1..k -> S] : k \in 0..n}

(***************************************************************************)
(* Records in the Messages format.                                         *)
(***************************************************************************)
Message(role, content) == [role |-> role, content |-> content]

Record(system, user, assistant) ==
    [system |-> system,
     messages |-> <<Message("user", user), Message("assistant", assistant)>>]

\* Well-formed records of combined length 2, 3, 3 and 4; two of them hold a
\* newline in the user content.
WellFormed ==
    {Record(s, u, <<"a">>) : s \in {<<>>, <<"s">>}, u \in {<<"u">>, <<"u", "NL">>}}

\* A record without the optional 'system' key, a record with one message, and a
\* record with a third message.
NoSystem == [messages |-> <<Message("user", <<"u">>), Message("assistant", <<"a">>)>>]
OneMessage == [system |-> <<"s">>, messages |-> <<Message("user", <<"u">>)>>]
ThreeMessages ==
    [system |-> <<>>,
     messages |-> <<Message("user", <<"u">>), Message("assistant", <<"a">>),
                    Message("user", <<"u", "u", "u">>)>>]

Records == WellFormed \cup {NoSystem, OneMessage, ThreeMessages}

(***************************************************************************)
(* The random module: a generator state, _randbelow and shuffle.           *)
(***************************************************************************)
randbelow(n, g) == g % n

NextRng(g) == (g + 1) % RngPeriod

\* A swap that loses x[i]: x[i] = x[j] alone.
Swap_Overwrite(x, i, j) == [x EXCEPT ![i] = x[j]]

Swap(x, i, j) == [x EXCEPT ![i] = x[j], ![j] = x[i]]

\* A shuffle that draws every index from the same generator state and leaves
\* the generator where it was.
RECURSIVE ShuffleFrom_NoAdvance(_, _, _)
ShuffleFrom_NoAdvance(x, i, g) ==
    IF i < 2 THEN [list |-> x, rng |-> g]
    ELSE ShuffleFrom_NoAdvance(Swap(x, i, randbelow(i, g) + 1), i - 1, g)

\* for i in reversed(range(1, len(x))): j = randbelow(i + 1); x[i], x[j] = x[j], x[i]
\* (i is the 1-based index here).
RECURSIVE ShuffleFrom(_, _, _)
ShuffleFrom(x, i, g) ==
    IF i < 2 THEN [list |-> x, rng |-> g]
    ELSE ShuffleFrom(Swap(x, i, randbelow(i, g) + 1), i - 1, NextRng(g))

Shuffle(x, g) == ShuffleFrom(x, Len(x), g)

(***************************************************************************)
(* dp_transform.                                                           *)
(***************************************************************************)
\* The exception the subscripts of the length test raise on dp, if any.
RecError(dp) ==
    IF "system" \notin DOMAIN dp THEN "KeyError"
    ELSE IF Len(dp.messages) < 2 THEN "IndexError"
    ELSE "none"

Combined(dp) == dp.system \o dp.messages[1].content \o dp.messages[2].content

\* The length test on the user content alone.
Passes_UserOnly(dp, limit) == Len(dp.messages[1].content) <= limit

\* The length test on the system string and the contents of all the messages.
RECURSIVE ContentsLength(_)
ContentsLength(ms) == IF ms = <<>> THEN 0 ELSE Len(Head(ms).content) + ContentsLength(Tail(ms))

Passes_AllMessages(dp, limit) == Len(dp.system) + ContentsLength(dp.messages) <= limit

\* The length test with < for <=.
Passes_Strict(dp, limit) == Len(Combined(dp)) < limit

Passes(dp, limit) == Len(Combined(dp)) <= limit

\* A loop that keeps a record over the limit with its assistant content emptied.
RECURSIVE FilterLoop_Clip(_, _, _)
FilterLoop_Clip(dps, limit, acc) ==
    IF dps = <<>> THEN [error |-> "none", lines |-> acc]
    ELSE IF RecError(Head(dps)) # "none"
         THEN [error |-> RecError(Head(dps)), lines |-> acc]
         ELSE FilterLoop_Clip(Tail(dps), limit,
                 IF Len(Combined(Head(dps))) <= limit THEN Append(acc, Head(dps))
                 ELSE Append(acc, [Head(dps) EXCEPT !.messages[2].content = <<>>]))

\* A loop that appends every record that passes twice.
RECURSIVE FilterLoop_AppendTwice(_, _, _)
FilterLoop_AppendTwice(dps, limit, acc) ==
    IF dps = <<>> THEN [error |-> "none", lines |-> acc]
    ELSE IF RecError(Head(dps)) # "none"
         THEN [error |-> RecError(Head(dps)), lines |-> acc]
         ELSE FilterLoop_AppendTwice(Tail(dps), limit,
                 IF Passes(Head(dps), limit) THEN acc \o <<Head(dps), Head(dps)>>
                 ELSE acc)

\* The for loop: lines collects the records that pass, in input order; the
\* first record whose subscripts raise ends the loop with that exception.
RECURSIVE FilterLoop(_, _, _)
FilterLoop(dps, limit, acc) ==
    IF dps = <<>> THEN [error |-> "none", lines |-> acc]
    ELSE IF RecError(Head(dps)) # "none"
         THEN [error |-> RecError(Head(dps)), lines |-> acc]
         ELSE FilterLoop(Tail(dps), limit,
                         IF Passes(Head(dps), limit) THEN Append(acc, Head(dps))
                         ELSE acc)

\* lines[:num_dps + 1]
SliceTo_OffByOne(x, n) ==
    SubSeq(x, 1, IF n + 1 < 0 THEN Max(0, Len(x) + n + 1) ELSE Min(n + 1, Len(x)))

\* A slice that takes a negative count for zero.
SliceTo_NegativeAsZero(x, n) == SubSeq(x, 1, IF n < 0 THEN 0 ELSE Min(n, Len(x)))

\* No slice at all: the whole list.
SliceTo_Whole(x, n) == x

\* lines[:num_dps]
SliceTo(x, n) ==
    SubSeq(x, 1, IF n < 0 THEN Max(0, Len(x) + n) ELSE Min(n, Len(x)))

\* A dp_transform that slices before it shuffles: lines=lines[:num_dps] ahead
\* of random.shuffle(lines).
dp_transform_SliceFirst(dps, n, limit, g) ==
    LET f == FilterLoop(dps, limit, <<>>)
        s == Shuffle(SliceTo(f.lines, n), g)
    IN  IF f.error # "none"
        THEN [outcome |-> f.error, lines |-> <<>>, shuffled |-> <<>>, rng |-> g,
              data_points |-> dps]
        ELSE [outcome |-> "returned", lines |-> s.list,
              shuffled |-> s.list, rng |-> s.rng, data_points |-> dps]

\* A dp_transform that shuffles its argument in place ahead of the loop:
\* random.shuffle(data_points) instead of random.shuffle(lines).
dp_transform_InPlace(dps, n, limit, g) ==
    LET d == Shuffle(dps, g)
        f == FilterLoop(d.list, limit, <<>>)
    IN  IF f.error # "none"
        THEN [outcome |-> f.error, lines |-> <<>>, shuffled |-> <<>>, rng |-> d.rng,
              data_points |-> d.list]
        ELSE [outcome |-> "returned", lines |-> SliceTo(f.lines, n),
              shuffled |-> f.lines, rng |-> d.rng, data_points |-> d.list]

\* The whole call from generator state g: the outcome, the returned list, the
\* local list after the shuffle, the generator state left behind, and the
\* argument list as the call leaves it (the loop only reads it; the shuffle
\* and the slice work on the list built by the loop).
dp_transform(dps, n, limit, g) ==
    LET f == FilterLoop(dps, limit, <<>>)
        s == Shuffle(f.lines, g)
    IN  IF f.error # "none"
        THEN [outcome |-> f.error, lines |-> <<>>, shuffled |-> <<>>, rng |-> g,
              data_points |-> dps]
        ELSE [outcome |-> "returned", lines |-> SliceTo(s.list, n),
              shuffled |-> s.list, rng |-> s.rng, data_points |-> dps]

(***************************************************************************)
(* jsonlines: json.dumps of a record, the file written by jsonl_converter, *)
(* and the reading back of such a file.                                    *)
(***************************************************************************)
RECURSIVE Concat(_)
Concat(ss) == IF ss = <<>> THEN <<>> ELSE Head(ss) \o Concat(Tail(ss))

\* An escape that leaves every character as it is.
EscapeChar_Raw(c) == <<c>>

\* The JSON escape of one character of a str.
EscapeChar(c) ==
    CASE c = "NL" -> <<"BS", "n">>
      [] c = "Q"  -> <<"BS", "Q">>
      [] c = "BS" -> <<"BS", "BS">>
      [] OTHER    -> <<c>>

JsonString(s) == <<"Q">> \o Concat([i \in 1..Len(s) |-> EscapeChar(s[i])]) \o <<"Q">>

JsonKey(k) == <<"Q", k, "Q", ":">>

DumpsMessage(m) ==
    <<"{">> \o JsonKey("role") \o <<"Q", m.role, "Q", ",">>
            \o JsonKey("content") \o JsonString(m.content) \o <<"}">>

RECURSIVE DumpsMessages(_)
DumpsMessages(ms) ==
    IF ms = <<>> THEN <<>>
    ELSE DumpsMessage(Head(ms))
         \o (IF Tail(ms) = <<>> THEN <<>> ELSE <<",">> \o DumpsMessages(Tail(ms)))

\* json.dumps(obj): the keys in insertion order, no raw newline in the text.
Dumps(obj) ==
    <<"{">>
    \o (IF "system" \in DOMAIN obj
        THEN JsonKey("system") \o JsonString(obj.system) \o <<",">> ELSE <<>>)
    \o JsonKey("messages") \o <<"[">> \o DumpsMessages(obj.messages) \o <<"]">>
    \o <<"}">>

\* Writer.write(line): the serialized object and a newline.
WriteLine(obj) == Dumps(obj) \o <<"NL">>

\* jsonl_converter with the file opened in mode 'a'.
jsonl_converter_Append(ds, name, files) ==
    [files EXCEPT ![name] = @ \o Concat([i \in 1..Len(ds) |-> WriteLine(ds[i])])]

\* jsonl_converter with a file opened for update: the text is written over the
\* start of the file and what the file held beyond it stays.
jsonl_converter_KeepLonger(ds, name, files) ==
    LET text == Concat([i \in 1..Len(ds) |-> WriteLine(ds[i])])
    IN  [files EXCEPT ![name] =
            text \o (IF Len(@) > Len(text) THEN SubSeq(@, Len(text) + 1, Len(@)) ELSE <<>>)]

\* jsonl_converter with a writer that is never closed: what it wrote is not in
\* the file when the call returns.
jsonl_converter_Unflushed(ds, name, files) == files

\* jsonl_converter(dataset, file_name): mode 'w' empties the file, then one
\* write per element of the dataset; the result is the new file system.
jsonl_converter(ds, name, files) ==
    [files EXCEPT ![name] = Concat([i \in 1..Len(ds) |-> WriteLine(ds[i])])]

\* The lines of a file: the text between newline characters (and the text
\* after the last one, when there is some).
LineEnds(text) ==
    {i \in 1..Len(text) : text[i] = "NL"}
        \cup (IF text # <<>> /\ text[Len(text)] # "NL" THEN {Len(text) + 1} ELSE {})

FileLines(text) ==
    LET ends == LineEnds(text)
        end(k) == CHOOSE p \in ends : Cardinality({q \in ends : q <= p}) = k
    IN  [k \in 1..Cardinality(ends) |->
            SubSeq(text, IF k = 1 THEN 1 ELSE end(k - 1) + 1, end(k) - 1)]

Expect(t, p, lit) == p + Len(lit) - 1 <= Len(t) /\ SubSeq(t, p, p + Len(lit) - 1) = lit

Unescape(c) == CASE c = "n" -> "NL" [] OTHER -> c

\* The body of a JSON string from position p (after the opening quote): the
\* decoded str and the position after the closing quote.
RECURSIVE LoadsStringBody(_, _, _)
LoadsStringBody(t, p, acc) ==
    IF p > Len(t) THEN [ok |-> FALSE]
    ELSE IF t[p] = "Q" THEN [ok |-> TRUE, value |-> acc, next |-> p + 1]
    ELSE IF t[p] = "BS"
         THEN IF p + 1 > Len(t) THEN [ok |-> FALSE]
              ELSE LoadsStringBody(t, p + 2, Append(acc, Unescape(t[p + 1])))
         ELSE LoadsStringBody(t, p + 1, Append(acc, t[p]))

LoadsString(t, p) ==
    IF Expect(t, p, <<"Q">>) THEN LoadsStringBody(t, p + 1, <<>>) ELSE [ok |-> FALSE]

LoadsMessage(t, p) ==
    IF ~ (Expect(t, p, <<"{">> \o JsonKey("role") \o <<"Q">>)
          /\ Expect(t, p + 7, <<"Q", ",">> \o JsonKey("content")))
    THEN [ok |-> FALSE]
    ELSE LET c == LoadsString(t, p + 13)
         IN  IF c.ok /\ Expect(t, c.next, <<"}">>)
             THEN [ok |-> TRUE, value |-> Message(t[p + 6], c.value), next |-> c.next + 1]
             ELSE [ok |-> FALSE]

RECURSIVE LoadsMessages(_, _, _)
LoadsMessages(t, p, acc) ==
    IF Expect(t, p, <<"]">>) /\ acc = <<>> THEN [ok |-> TRUE, value |-> acc, next |-> p + 1]
    ELSE LET m == LoadsMessage(t, p)
         IN  IF ~ m.ok THEN [ok |-> FALSE]
             ELSE IF Expect(t, m.next, <<",">>)
                  THEN LoadsMessages(t, m.next + 1, Append(acc, m.value))
             ELSE IF Expect(t, m.next, <<"]">>)
                  THEN [ok |-> TRUE, value |-> Append(acc, m.value), next |-> m.next + 1]
             ELSE [ok |-> FALSE]

\* json.loads of one line of the file: the object, when the line is one.
Loads(t) ==
    LET sys == IF Expect(t, 2, JsonKey("system")) THEN LoadsString(t, 6) ELSE [ok |-> FALSE]
        q   == IF sys.ok THEN sys.next + 1 ELSE 2
        ms  == IF Expect(t, q, JsonKey("messages") \o <<"[">>)
               THEN LoadsMessages(t, q + 5, <<>>) ELSE [ok |-> FALSE]
    IN  IF ~ (Expect(t, 1, <<"{">>) /\ (sys.ok => Expect(t, sys.next, <<",">>)) /\ ms.ok)
        THEN [ok |-> FALSE]
        ELSE IF ~ (Expect(t, ms.next, <<"}">>) /\ ms.next = Len(t))
        THEN [ok |-> FALSE]
        ELSE [ok |-> TRUE,
              value |-> IF sys.ok
                        THEN [system |-> sys.value, messages |-> ms.value]
                        ELSE [messages |-> ms.value]]

(***************************************************************************)
(* The helpers on their own: dp_transform applied to any list of records,  *)
(* any count and any limit, from any generator state, and jsonl_converter  *)
(* applied to what it returned.                                            *)
(***************************************************************************)
train_file_name == "train-samsum-1K.jsonl"
validation_file_name == "validation-samsum-100.jsonl"
test_file_name == "test-samsum-10.jsonl"

FileNames == {train_file_name, validation_file_name, test_file_name}

\* What a file of an earlier run holds.
Stale == <<"x", "NL">>

NoDataset == [train |-> <<>>, validation |-> <<>>, test |-> <<>>]

\* A kernel in which no resource cell and no RAG cell has run: no SDK call,
\* the globals not assigned yet ("" an unassigned str, <<>> anything else).
NoCalls ==
    /\ events = <<>> /\ sent = <<>> /\ attempt = 0
    /\ response = <<>>
    /\ account_id = "" /\ bucket_name = <<>> /\ role_name = <<>>
    /\ s3_bedrock_finetuning_access_policy = <<>>
    /\ role_arn = <<>> /\ policy_arn = <<>>
    /\ s3_train_uri = <<>> /\ s3_validation_uri = <<>> /\ s3_test_uri = <<>>
    /\ bedrock_kb_id = "" /\ user_query = <<>> /\ contexts = <<>>
    /\ converse_request = <<>>

InitDp ==
    /\ pc = "call"
    /\ rng \in 0..(RngPeriod - 1)
    /\ seed = rng
    /\ data_points \in SeqsUpTo(Records, MaxDps)
    /\ num_dps \in (-1)..MaxDps
    /\ max_dp_length \in 1..MaxLimit
    /\ shuffled = <<>>
    /\ lines = <<>>
    /\ outcome = "none"
    /\ file_name = ""
    /\ fs = [f \in FileNames |-> Stale]
    /\ dataset = NoDataset
    /\ datapoints_train = <<>> /\ datapoints_valid = <<>> /\ datapoints_test = <<>>
    /\ train = <<>> /\ validation = <<>> /\ test = <<>>
    /\ NoCalls
    /\ stored = <<>>

\* lines = dp_transform(data_points, num_dps, max_dp_length)
DpCall ==
    /\ pc = "call"
    /\ LET r == dp_transform(data_points, num_dps, max_dp_length, rng)
       IN  /\ outcome' = r.outcome
           /\ lines' = r.lines
           /\ shuffled' = r.shuffled
           /\ rng' = r.rng
           /\ data_points' = r.data_points
           /\ pc' = IF r.outcome = "returned" THEN "write" ELSE "raised"
    /\ UNCHANGED <<ext, seed, num_dps, max_dp_length, file_name, fs, dataset,
                   datapoints_train, datapoints_valid, datapoints_test,
                   train, validation, test>>

\* jsonl_converter(lines, file_name)
JsonlCall ==
    /\ pc = "write"
    /\ \E f \in FileNames :
          /\ file_name' = f
          /\ fs' = jsonl_converter(lines, f, fs)
    /\ pc' = "written"
    /\ UNCHANGED <<ext, rng, seed, data_points, num_dps, max_dp_length, shuffled, lines,
                   outcome, dataset, datapoints_train, datapoints_valid,
                   datapoints_test, train, validation, test>>

NextDp == DpCall \/ JsonlCall

SpecDp == InitDp /\ [][NextDp]_vars

(***************************************************************************)
(* The data preparation run, cell by cell, from load_dataset to the three  *)
(* JSONL files.                                                            *)
(***************************************************************************)
\* The two string literals of the notebook, shortened; the instruction header
\* holds newlines.
system_string == <<"S">>
instruction == <<"I", "NL">>

\* The rows of the dataset: two short conversations and one long one.
Rows ==
    {[dialogue |-> <<"d">>, summary |-> <<"m">>],
     [dialogue |-> <<"e">>, summary |-> <<"n">>],
     [dialogue |-> <<"d", "NL", "d">>, summary |-> <<"m">>]}

\* The sizes of the three splits of a dataset of at most MaxRows rows.
SplitSizes ==
    {t \in (0..MaxRows) \X (0..MaxRows) \X (0..MaxRows) : t[1] + t[2] + t[3] <= MaxRows}

Datasets ==
    UNION {[train : [1..t[1] -> Rows], validation : [1..t[2] -> Rows],
            test : [1..t[3] -> Rows]] : t \in SplitSizes}

\* A record whose user content has the dialogue before the instruction header.
BuildRecord_DialogueFirst(dp) ==
    [system |-> system_string,
     messages |-> <<Message("user", dp.dialogue \o instruction),
                    Message("assistant", dp.summary)>>]

\* The body of the three loops: temp_dict of one row.
BuildRecord(dp) ==
    [system |-> system_string,
     messages |-> <<Message("user", instruction \o dp.dialogue),
                    Message("assistant", dp.summary)>>]

\* datapoints = []; for dp in split: ...; datapoints.append(temp_dict)
BuildDatapoints(split) == [i \in 1..Len(split) |-> BuildRecord(split[i])]

\* A kernel that has just started: the generator in any state, no global
\* assigned, the files of an earlier run in place.
FreshKernel ==
    /\ rng \in 0..(RngPeriod - 1)
    /\ seed = rng
    /\ data_points = <<>>
    /\ num_dps = 0
    /\ max_dp_length = 0
    /\ shuffled = <<>>
    /\ lines = <<>>
    /\ outcome = "none"
    /\ file_name = ""
    /\ fs = [f \in FileNames |-> Stale]
    /\ dataset = NoDataset
    /\ datapoints_train = <<>> /\ datapoints_valid = <<>> /\ datapoints_test = <<>>
    /\ train = <<>> /\ validation = <<>> /\ test = <<>>
    /\ NoCalls

Init ==
    /\ pc = "load_dataset"
    /\ FreshKernel
    /\ stored = <<>>

\* dataset = load_dataset("knkarthick/samsum")
LoadDataset ==
    /\ pc = "load_dataset"
    /\ dataset' \in Datasets
    /\ pc' = "build_train"
    /\ UNCHANGED <<ext, rng, seed, data_points, num_dps, max_dp_length, shuffled, lines,
                   outcome, file_name, fs, datapoints_train, datapoints_valid,
                   datapoints_test, train, validation, test>>

BuildTrain ==
    /\ pc = "build_train"
    /\ datapoints_train' = BuildDatapoints(dataset.train)
    /\ pc' = "build_valid"
    /\ UNCHANGED <<ext, rng, seed, data_points, num_dps, max_dp_length, shuffled, lines,
                   outcome, file_name, fs, dataset, datapoints_valid,
                   datapoints_test, train, validation, test>>

BuildValid ==
    /\ pc = "build_valid"
    /\ datapoints_valid' = BuildDatapoints(dataset.validation)
    /\ pc' = "build_test"
    /\ UNCHANGED <<ext, rng, seed, data_points, num_dps, max_dp_length, shuffled, lines,
                   outcome, file_name, fs, dataset, datapoints_train,
                   datapoints_test, train, validation, test>>

BuildTest ==
    /\ pc = "build_test"
    /\ datapoints_test' = BuildDatapoints(dataset.test)
    /\ pc' = "transform_train"
    /\ UNCHANGED <<ext, rng, seed, data_points, num_dps, max_dp_length, shuffled, lines,
                   outcome, file_name, fs, dataset, datapoints_train,
                   datapoints_valid, train, validation, test>>

\* One call of the cell of the three calls: the arguments, the call from the
\* shared generator state, and the position after it.
Call(dps, n, next) ==
    LET r == dp_transform(dps, n, MaxDpLength, rng)
    IN  /\ data_points' = r.data_points
        /\ num_dps' = n
        /\ max_dp_length' = MaxDpLength
        /\ outcome' = r.outcome
        /\ lines' = r.lines
        /\ shuffled' = r.shuffled
        /\ rng' = r.rng
        /\ pc' = IF r.outcome = "returned" THEN next ELSE "raised"

\* train=dp_transform(datapoints_train,1000,20000)
TransformTrain ==
    /\ pc = "transform_train"
    /\ Call(datapoints_train, NumTrain, "transform_valid")
    /\ train' = lines'
    /\ UNCHANGED <<ext, seed, file_name, fs, dataset, datapoints_train, datapoints_valid,
                   datapoints_test, validation, test>>

\* validation=dp_transform(datapoints_valid,100,20000)
TransformValid ==
    /\ pc = "transform_valid"
    /\ Call(datapoints_valid, NumValid, "transform_test")
    /\ validation' = lines'
    /\ UNCHANGED <<ext, seed, file_name, fs, dataset, datapoints_train, datapoints_valid,
                   datapoints_test, train, test>>

\* test=dp_transform(datapoints_test,10,20000)
TransformTest ==
    /\ pc = "transform_test"
    /\ Call(datapoints_test, NumTest, "convert_train")
    /\ test' = lines'
    /\ UNCHANGED <<ext, seed, file_name, fs, dataset, datapoints_train, datapoints_valid,
                   datapoints_test, train, validation>>

\* One call of the cell of the three jsonl_converter calls.
Convert(ds, name, next) ==
    /\ file_name' = name
    /\ fs' = jsonl_converter(ds, name, fs)
    /\ pc' = next
    /\ UNCHANGED <<ext, rng, seed, data_points, num_dps, max_dp_length, shuffled, lines,
                   outcome, dataset, datapoints_train, datapoints_valid,
                   datapoints_test, train, validation, test>>

ConvertTrain == pc = "convert_train" /\ Convert(train, train_file_name, "convert_valid")

\* The second call of the cell writing the training records again.
ConvertValid_TrainRecords ==
    pc = "convert_valid" /\ Convert(train, validation_file_name, "convert_test")

ConvertValid ==
    pc = "convert_valid" /\ Convert(validation, validation_file_name, "convert_test")

ConvertTest == pc = "convert_test" /\ Convert(test, test_file_name, "upload_train")

Next ==
    \/ LoadDataset
    \/ BuildTrain
    \/ BuildValid
    \/ BuildTest
    \/ TransformTrain
    \/ TransformValid
    \/ TransformTest
    \/ ConvertTrain
    \/ ConvertValid
    \/ ConvertTest

Spec == Init /\ [][Next]_vars

(***************************************************************************)
(* The SDK calls of the notebooks.  A call of a client method is invoked   *)
(* by a cell, sends a request, and returns a response or raises; the cell  *)
(* stays where it is until then.  A client built without a Config re-sends *)
(* a request that failed in passing (throttling, a 5xx, a broken           *)
(* connection); a client built with retries={'max_attempts': 0} does not.  *)
(***************************************************************************)
DefaultNumOfResults == 5   \* def retrieve(user_query, kb_id, num_of_results=5)
CellNumOfResults == 3      \* retrieve(user_query, bedrock_kb_id, num_of_results=3)

ConfiguredRetries == 0   \* bedrock_config: retries={'max_attempts': 0}
SdkDefaultRetries == 1   \* retries of a client built without a Config (scaled)

\* The client each method is called on.
Client(op) ==
    CASE op = "retrieve" -> "bedrock-agent-runtime"
      [] op = "converse" -> "bedrock-runtime"
      [] op \in {"create_bucket", "upload_file"} -> "s3"
      [] op \in {"create_role", "create_policy", "attach_role_policy"} -> "iam"

\* No client takes the retries of bedrock_config.
Retries_NoneConfigured(client) == SdkDefaultRetries

\* bedrock_config is handed to the bedrock-agent-runtime client alone.
Retries(client) ==
    IF client = "bedrock-agent-runtime" THEN ConfiguredRetries ELSE SdkDefaultRetries

MaxAttempts(op) == 1 + Retries(Client(op))

Event(kind, op, payload) == [kind |-> kind, op |-> op, payload |-> payload]

Last(s) == s[Len(s)]

\* The request a call sends: its arguments; upload_file sends the content the
\* local file has at that moment.
\* A request with the default count whatever count the caller gave.
RetrieveRequest_DefaultCount(args) ==
    [retrievalQuery |-> [text |-> args.user_query],
     knowledgeBaseId |-> args.kb_id,
     retrievalConfiguration |->
        [vectorSearchConfiguration |->
            [numberOfResults |-> DefaultNumOfResults, overrideSearchType |-> "HYBRID"]]]

\* The body of retrieve(user_query, kb_id, num_of_results=5): the arguments
\* it hands to bedrock_agent_client.retrieve.
RetrieveRequest(args) ==
    [retrievalQuery |-> [text |-> args.user_query],
     knowledgeBaseId |-> args.kb_id,
     retrievalConfiguration |->
        [vectorSearchConfiguration |->
            [numberOfResults |-> IF "num_of_results" \in DOMAIN args
                                 THEN args.num_of_results ELSE DefaultNumOfResults,
             overrideSearchType |-> "HYBRID"]]]

\* The request a call sends: the arguments of the client method; retrieve
\* builds them from its own, and upload_file sends the content the local file
\* has at that moment.
Request(op, args) ==
    CASE op = "upload_file" ->
            [Bucket |-> args.Bucket, Key |-> args.Key, Body |-> fs[args.Filename]]
      [] op = "retrieve" -> RetrieveRequest(args)
      [] OTHER -> args

\* The cells of the two notebooks, top to bottom.
RagCells == <<"restore", "retrieve", "contexts", "converse", "answered">>

PrepCells ==
    <<"session", "names", "create_bucket", "create_role", "role_arn", "create_policy",
      "policy_arn", "attach_role_policy", "load_dataset", "build_train", "build_valid",
      "build_test", "transform_train", "transform_valid", "transform_test",
      "convert_train", "convert_valid", "convert_test", "upload_train",
      "upload_validation", "upload_test", "uris", "store", "done">>

\* The cell after cell c.
After(c) ==
    LET cells == IF c \in Range(RagCells) THEN RagCells ELSE PrepCells
        i == CHOOSE k \in 1..Len(cells) : cells[k] = c
    IN  cells[i + 1]

\* A call that does not wait: the cell goes on once the request is out.
Invoke_NoWait(op, args) ==
    /\ attempt = 0
    /\ attempt' = 0
    /\ events' = Append(events, Event("invoke", op, args))
    /\ sent' = <<Request(op, args)>>
    /\ pc' = After(pc)

\* client.op(**args): the call starts and its first request goes out.
Invoke(op, args) ==
    /\ attempt = 0
    /\ attempt' = 1
    /\ events' = Append(events, Event("invoke", op, args))
    /\ sent' = <<Request(op, args)>>
    /\ pc' = pc

\* The call returns result to the cell, which goes on to the cell next.
Return(op, result, next) ==
    /\ attempt > 0
    /\ attempt' = 0
    /\ events' = Append(events, Event("return", op, result))
    /\ pc' = next
    /\ UNCHANGED sent

\* The SDK re-sends the request of the call under way.
Resend ==
    /\ attempt > 0
    /\ attempt < MaxAttempts(Last(events).op)
    /\ attempt' = attempt + 1
    /\ sent' = Append(sent, Request(Last(events).op, Last(events).payload))
    /\ UNCHANGED <<pc, events, data, stored, response, names, arns, uris, rag>>

\* An exception that is caught and dropped: the run goes on with the next cell.
Raise_Swallowed ==
    /\ attempt > 0
    /\ attempt' = 0
    /\ events' = Append(events, Event("raise", Last(events).op, [Error |-> "ClientError"]))
    /\ pc' = After(pc)
    /\ UNCHANGED <<sent, data, stored, response, names, arns, uris, rag>>

\* The call under way raises: nothing catches the exception, the run ends.
Raise ==
    /\ attempt > 0
    /\ attempt' = 0
    /\ events' = Append(events, Event("raise", Last(events).op, [Error |-> "ClientError"]))
    /\ pc' = "raised"
    /\ UNCHANGED <<sent, data, stored, response, names, arns, uris, rag>>

(***************************************************************************)
(* The resource cells of the data preparation notebook.                    *)
(***************************************************************************)
Accounts == {"111111111111", "222222222222"}

region == "us-east-1"

\* str(uuid.uuid4())
Suffixes == {"0f8fad5b", "7c9e6679"}

\* account_id = sts_client.get_caller_identity()["Account"]; bucket_name = ...
SessionCell ==
    /\ pc = "session"
    /\ \E a \in Accounts :
          /\ account_id' = a
          /\ bucket_name' = <<"bedrock-haiku-customization-", region, "-", a>>
    /\ pc' = "names"
    /\ UNCHANGED <<role_name, s3_bedrock_finetuning_access_policy>>
    /\ UNCHANGED <<data, sdk, stored, response, arns, uris, rag>>

\* suffix = str(uuid.uuid4()); role_name = ...; s3_bedrock_finetuning_access_policy = ...
NamesCell ==
    /\ pc = "names"
    /\ \E suffix \in Suffixes :
          /\ role_name' = <<"BedrockRole-", suffix>>
          /\ s3_bedrock_finetuning_access_policy' = <<"BedrockPolicy-", suffix>>
    /\ pc' = "create_bucket"
    /\ UNCHANGED <<account_id, bucket_name>>
    /\ UNCHANGED <<data, sdk, stored, response, arns, uris, rag>>

\* s3bucket = s3_client.create_bucket(Bucket=bucket_name)
CreateBucketCall ==
    /\ pc = "create_bucket"
    /\ Invoke("create_bucket", [Bucket |-> bucket_name])
    /\ UNCHANGED <<data, stored, response, names, arns, uris, rag>>

CreateBucketReturn ==
    /\ pc = "create_bucket"
    /\ Return("create_bucket", [Location |-> <<"/">> \o sent[1].Bucket], "create_role")
    /\ UNCHANGED <<data, stored, response, names, arns, uris, rag>>

\* response = iam.create_role(RoleName=role_name, ...)
CreateRoleCall ==
    /\ pc = "create_role"
    /\ Invoke("create_role",
              [RoleName |-> role_name, AssumeRolePolicyDocument |-> "ROLE_DOC",
               Description |-> "Role for Bedrock to access S3 for haiku finetuning"])
    /\ UNCHANGED <<data, stored, response, names, arns, uris, rag>>

\* The role the service created: its ARN holds the account and the name.
CreatedRole(req) ==
    [Role |-> [RoleName |-> req.RoleName,
               Arn |-> <<"arn:aws:iam::", account_id, ":role/">> \o req.RoleName]]

CreateRoleReturn ==
    /\ pc = "create_role"
    /\ attempt > 0
    /\ response' = CreatedRole(sent[1])
    /\ Return("create_role", response', "role_arn")
    /\ UNCHANGED <<data, stored, names, arns, uris, rag>>

\* role_arn = response["Role"]["Arn"]
RoleArnCell ==
    /\ pc = "role_arn"
    /\ role_arn' = response.Role.Arn
    /\ pc' = "create_policy"
    /\ UNCHANGED <<policy_arn, data, sdk, stored, response, names, uris, rag>>

\* response = iam.create_policy(PolicyName=..., PolicyDocument=ACCESS_POLICY_DOC)
CreatePolicyCall ==
    /\ pc = "create_policy"
    /\ Invoke("create_policy",
              [PolicyName |-> s3_bedrock_finetuning_access_policy,
               PolicyDocument |-> "ACCESS_POLICY_DOC"])
    /\ UNCHANGED <<data, stored, response, names, arns, uris, rag>>

CreatedPolicy(req) ==
    [Policy |-> [PolicyName |-> req.PolicyName,
                 Arn |-> <<"arn:aws:iam::", account_id, ":policy/">> \o req.PolicyName]]

CreatePolicyReturn ==
    /\ pc = "create_policy"
    /\ attempt > 0
    /\ response' = CreatedPolicy(sent[1])
    /\ Return("create_policy", response', "policy_arn")
    /\ UNCHANGED <<data, stored, names, arns, uris, rag>>

\* policy_arn = response["Policy"]["Arn"]
PolicyArnCell ==
    /\ pc = "policy_arn"
    /\ policy_arn' = response.Policy.Arn
    /\ pc' = "attach_role_policy"
    /\ UNCHANGED <<role_arn, data, sdk, stored, response, names, uris, rag>>

\* The arguments with the policy name where the ARN belongs.
AttachArgs_PolicyName == [RoleName |-> role_name, PolicyArn |-> s3_bedrock_finetuning_access_policy]

\* RoleName=role_name, PolicyArn=policy_arn
AttachArgs == [RoleName |-> role_name, PolicyArn |-> policy_arn]

\* iam.attach_role_policy(RoleName=role_name, PolicyArn=policy_arn)
AttachCall ==
    /\ pc = "attach_role_policy"
    /\ Invoke("attach_role_policy", AttachArgs)
    /\ UNCHANGED <<data, stored, response, names, arns, uris, rag>>

AttachReturn ==
    /\ pc = "attach_role_policy"
    /\ Return("attach_role_policy", [ResponseMetadata |-> "200"], "load_dataset")
    /\ UNCHANGED <<data, stored, response, names, arns, uris, rag>>

\* The sizes of the three splits of a dataset of at most MaxRunRows rows.
RunSplitSizes ==
    {t \in (0..MaxRunRows) \X (0..MaxRunRows) \X (0..MaxRunRows) :
        t[1] + t[2] + t[3] <= MaxRunRows}

RunDatasets ==
    UNION {[train : [1..t[1] -> Rows], validation : [1..t[2] -> Rows],
            test : [1..t[3] -> Rows]] : t \in RunSplitSizes}

\* dataset = load_dataset("knkarthick/samsum"), in a run of the whole notebook
LoadDatasetRun ==
    /\ pc = "load_dataset"
    /\ dataset' \in RunDatasets
    /\ pc' = "build_train"
    /\ UNCHANGED <<ext, rng, seed, data_points, num_dps, max_dp_length, shuffled, lines,
                   outcome, file_name, fs, datapoints_train, datapoints_valid,
                   datapoints_test, train, validation, test>>

\* The key of a split's file in the bucket.
Key(split, name) == <<"haiku-fine-tuning-datasets/", split, "/", name>>

\* s3_client.upload_file(f'{abs_path}/{name}', bucket_name, key)
UploadArgs(split, name) ==
    [Filename |-> name, Bucket |-> bucket_name, Key |-> Key(split, name)]

UploadCall(split, name) ==
    /\ Invoke("upload_file", UploadArgs(split, name))
    /\ UNCHANGED <<data, stored, response, names, arns, uris, rag>>

UploadReturn(next) ==
    /\ Return("upload_file", [Result |-> "None"], next)
    /\ UNCHANGED <<data, stored, response, names, arns, uris, rag>>

UploadTrainCall == pc = "upload_train" /\ UploadCall("train", train_file_name)

UploadTrainReturn == pc = "upload_train" /\ UploadReturn("upload_validation")

UploadValidationCall ==
    pc = "upload_validation" /\ UploadCall("validation", validation_file_name)

UploadValidationReturn == pc = "upload_validation" /\ UploadReturn("upload_test")

UploadTestCall == pc = "upload_test" /\ UploadCall("test", test_file_name)

UploadTestReturn == pc = "upload_test" /\ UploadReturn("uris")

\* The URI under the name of the local folder, dataset_folder.
S3Uri_FolderName(split, name) ==
    <<"s3://">> \o bucket_name \o <<"/">>
        \o <<"haiku-fine-tuning-datasets-samsum/", split, "/", name>>

\* f's3://{bucket_name}/haiku-fine-tuning-datasets/{split}/{name}'
S3Uri(split, name) == <<"s3://">> \o bucket_name \o <<"/">> \o Key(split, name)

UrisCell ==
    /\ pc = "uris"
    /\ s3_train_uri' = S3Uri("train", train_file_name)
    /\ s3_validation_uri' = S3Uri("validation", validation_file_name)
    /\ s3_test_uri' = S3Uri("test", test_file_name)
    /\ pc' = "store"
    /\ UNCHANGED <<data, sdk, stored, response, names, arns, rag>>

\* The names of the %store cell.
StoredNames ==
    {"role_arn", "bucket_name", "role_name", "policy_arn", "s3_train_uri",
     "s3_validation_uri", "s3_test_uri"}

\* The two ARNs under each other's name.
Global_ArnsSwapped(n) ==
    CASE n = "role_arn" -> policy_arn
      [] n = "bucket_name" -> bucket_name
      [] n = "role_name" -> role_name
      [] n = "policy_arn" -> role_arn
      [] n = "s3_train_uri" -> s3_train_uri
      [] n = "s3_validation_uri" -> s3_validation_uri
      [] n = "s3_test_uri" -> s3_test_uri

\* The global of each name.
Global(n) ==
    CASE n = "role_arn" -> role_arn
      [] n = "bucket_name" -> bucket_name
      [] n = "role_name" -> role_name
      [] n = "policy_arn" -> policy_arn
      [] n = "s3_train_uri" -> s3_train_uri
      [] n = "s3_validation_uri" -> s3_validation_uri
      [] n = "s3_test_uri" -> s3_test_uri

\* %store role_arn ... %store s3_test_uri
StoreCell ==
    /\ pc = "store"
    /\ stored' = [n \in DOMAIN stored \cup StoredNames |->
                     IF n \in StoredNames THEN Global(n) ELSE stored[n]]
    /\ pc' = "done"
    /\ UNCHANGED <<data, sdk, response, names, arns, uris, rag>>

(***************************************************************************)
(* The cells of the RAG notebook.                                          *)
(***************************************************************************)
KbIds == {"KB1", "KB2"}

Queries == {<<"q">>, <<"w", "?">>}

\* The retrieval results the service may return: a chunk of text and where it
\* is from.
Results ==
    {[content |-> [text |-> <<"t">>], location |-> "s3://docs/a"],
     [content |-> [text |-> <<"u", "NL">>], location |-> "s3://docs/b"]}

RetrieveResponses == {[retrievalResults |-> r] : r \in SeqsUpTo(Results, MaxResults)}

Answers == {<<"a">>, <<"b">>}

model_id == "amazon.nova-micro-v1:0"

\* %store -r bedrock_kb_id
RestoreCell ==
    /\ pc = "restore"
    /\ bedrock_kb_id' = stored.bedrock_kb_id
    /\ pc' = "retrieve"
    /\ UNCHANGED <<user_query, contexts, converse_request>>
    /\ UNCHANGED <<data, sdk, stored, response, names, arns, uris>>

\* The arguments of a call of retrieve: with the count of the cell, or without
\* a count.
RetrieveArgs(q, kb) ==
    {[user_query |-> q, kb_id |-> kb],
     [user_query |-> q, kb_id |-> kb, num_of_results |-> CellNumOfResults]}

\* user_query = ...; response = retrieve(user_query, bedrock_kb_id, num_of_results=3)
RetrieveCall ==
    /\ pc = "retrieve"
    /\ attempt = 0
    /\ \E q \in Queries :
          /\ user_query' = q
          /\ \E args \in RetrieveArgs(q, bedrock_kb_id) : Invoke("retrieve", args)
    /\ UNCHANGED <<bedrock_kb_id, contexts, converse_request>>
    /\ UNCHANGED <<data, stored, response, names, arns, uris>>

RetrieveReturn ==
    /\ pc = "retrieve"
    /\ attempt > 0
    /\ \E resp \in RetrieveResponses :
          /\ response' = resp
          /\ Return("retrieve", resp, "contexts")
    /\ UNCHANGED <<data, stored, names, arns, uris, rag>>

\* The text of the first result alone.
ExtractContexts_FirstOnly(resp) ==
    IF resp.retrievalResults = <<>> THEN <<>>
    ELSE <<resp.retrievalResults[1].content.text>>

\* [rr['content']['text'] for rr in response['retrievalResults']]
ExtractContexts(resp) ==
    [i \in 1..Len(resp.retrievalResults) |-> resp.retrievalResults[i].content.text]

\* contexts = [rr['content']['text'] for rr in response['retrievalResults']]
ContextsCell ==
    /\ pc = "contexts"
    /\ contexts' = ExtractContexts(response)
    /\ pc' = "converse"
    /\ UNCHANGED <<bedrock_kb_id, user_query, converse_request>>
    /\ UNCHANGED <<data, sdk, stored, response, names, arns, uris>>

system_prompt == <<"You are a financial advisor AI system, ...">>

\* repr of a str, as str.format renders the elements of a list.
ReprChar(c) ==
    CASE c = "NL" -> <<"BS", "n">>
      [] c = "BS" -> <<"BS", "BS">>
      [] OTHER    -> <<c>>

Repr(t) == <<"'">> \o Concat([i \in 1..Len(t) |-> ReprChar(t[i])]) \o <<"'">>

\* str of a list of str: [repr, repr, ...]
RECURSIVE ReprItems(_)
ReprItems(l) ==
    IF l = <<>> THEN <<>>
    ELSE Repr(Head(l)) \o (IF Tail(l) = <<>> THEN <<>> ELSE <<",", " ">> \o ReprItems(Tail(l)))

ListStr(l) == <<"[">> \o ReprItems(l) \o <<"]">>

\* user_prompt_template.format(contexts=contexts, user_query=user_query)
Format(ctx, q) ==
    <<"Here is some additional context:", "NL", "<context>", "NL">>
    \o ListStr(ctx)
    \o <<"NL", "</context>", "NL", "NL",
         "Please provide an answer to this user query:", "NL", "<query>", "NL">>
    \o q
    \o <<"NL", "</query>", "NL", "NL",
         "The response should be specific and use statistics or numbers when possible.">>

\* converse_request = {...}
ConverseRequest(ctx, q) ==
    [system |-> <<[text |-> system_prompt]>>,
     messages |-> <<[role |-> "user", content |-> <<[text |-> Format(ctx, q)]>>]>>,
     inferenceConfig |-> [temperature |-> "0.4", topP |-> "0.9", maxTokens |-> 500]]

\* converse_request = {...}; response = bedrock_client.converse(modelId=model_id, ...)
ConverseCall ==
    /\ pc = "converse"
    /\ attempt = 0
    /\ converse_request' = ConverseRequest(contexts, user_query)
    /\ Invoke("converse",
              [modelId |-> model_id, system |-> converse_request'.system,
               messages |-> converse_request'.messages,
               inferenceConfig |-> converse_request'.inferenceConfig])
    /\ UNCHANGED <<bedrock_kb_id, user_query, contexts>>
    /\ UNCHANGED <<data, stored, response, names, arns, uris>>

\* The answer bound to a name of its own: response keeps the retrieval.
ConverseReturn_OwnName ==
    /\ pc = "converse"
    /\ attempt > 0
    /\ \E a \in Answers :
          Return("converse",
                 [output |-> [message |-> [role |-> "assistant",
                                           content |-> <<[text |-> a]>>]]],
                 "answered")
    /\ UNCHANGED <<data, stored, response, names, arns, uris, rag>>

ConverseReturn ==
    /\ pc = "converse"
    /\ attempt > 0
    /\ \E a \in Answers :
          /\ response' = [output |-> [message |-> [role |-> "assistant",
                                                   content |-> <<[text |-> a]>>]]]
          /\ Return("converse", response', "answered")
    /\ UNCHANGED <<data, stored, names, arns, uris, rag>>

\* The cell of the contexts run once more after the answer: the comprehension
\* subscripts whatever response holds by then, and raises KeyError where the
\* key 'retrievalResults' is missing.
ContextsCellAgain ==
    /\ pc = "answered"
    /\ IF "retrievalResults" \in DOMAIN response
       THEN /\ contexts' = ExtractContexts(response)
            /\ outcome' = outcome
            /\ pc' = "contexts_again"
       ELSE /\ contexts' = contexts
            /\ outcome' = "KeyError"
            /\ pc' = "raised"
    /\ UNCHANGED <<bedrock_kb_id, user_query, converse_request>>
    /\ UNCHANGED <<rng, seed, data_points, num_dps, max_dp_length, shuffled, lines,
                   file_name, fs, dataset, datapoints_train, datapoints_valid,
                   datapoints_test, train, validation, test>>
    /\ UNCHANGED <<sdk, stored, response, names, arns, uris>>

(***************************************************************************)
(* A run of one of the two notebooks, top to bottom, in a fresh kernel;     *)
(* after the answer the cell of the contexts may be run once more.         *)
(***************************************************************************)
InitRun ==
    /\ pc \in {"restore", "session"}
    /\ FreshKernel
    /\ stored \in {[bedrock_kb_id |-> k] : k \in KbIds}

NextRun ==
    \/ RestoreCell
    \/ RetrieveCall
    \/ RetrieveReturn
    \/ ContextsCell
    \/ ConverseCall
    \/ ConverseReturn
    \/ ContextsCellAgain
    \/ SessionCell
    \/ NamesCell
    \/ CreateBucketCall
    \/ CreateBucketReturn
    \/ CreateRoleCall
    \/ CreateRoleReturn
    \/ RoleArnCell
    \/ CreatePolicyCall
    \/ CreatePolicyReturn
    \/ PolicyArnCell
    \/ AttachCall
    \/ AttachReturn
    \/ LoadDatasetRun
    \/ BuildTrain
    \/ BuildValid
    \/ BuildTest
    \/ TransformTrain
    \/ TransformValid
    \/ TransformTest
    \/ ConvertTrain
    \/ ConvertValid
    \/ ConvertTest
    \/ UploadTrainCall
    \/ UploadTrainReturn
    \/ UploadValidationCall
    \/ UploadValidationReturn
    \/ UploadTestCall
    \/ UploadTestReturn
    \/ UrisCell
    \/ StoreCell
    \/ Resend
    \/ Raise

SpecRun == InitRun /\ [][NextRun]_vars


(***************************************************************************)
(* Vocabulary of the properties.                                           *)
(***************************************************************************)
\* len(system) + len(messages[0].content) + len(messages[1].content)
TextLength(dp) ==
    Len(dp.system) + Len(dp.messages[1].content) + Len(dp.messages[2].content)

\* The positions of the argument whose record is within the limit.
PassingPositions ==
    {j \in 1..Len(data_points) : TextLength(data_points[j]) <= max_dp_length}

Occurrences(x, r) == Cardinality({i \in 1..Len(x) : x[i] = r})

Returned == outcome = "returned"

(***************************************************************************)
(* C1: every record dp_transform returns has combined text length          *)
(* len(system) + len(messages[0].content) + len(messages[1].content)       *)
(* at most max_dp_length.                                                  *)
(***************************************************************************)
C1_OutputWithinLimit ==
    Returned => \A i \in 1..Len(lines) : TextLength(lines[i]) <= max_dp_length

\* A call that returned a record and dropped another for its length.
C1_Witness ==
    /\ Returned
    /\ Len(lines) >= 1
    /\ \E j \in 1..Len(data_points) : TextLength(data_points[j]) > max_dp_length

(***************************************************************************)
(* C2, as stated: for every requested count num_dps the number of records  *)
(* returned is min(num_dps, number of records within the limit).           *)
(***************************************************************************)
C2_SizeIsMinForEveryCount ==
    Returned => Len(lines) = Min(num_dps, Cardinality(PassingPositions))

(***************************************************************************)
(* C2, amended: for every requested count num_dps >= 0 the number of       *)
(* records returned is min(num_dps, number of records within the limit).   *)
(***************************************************************************)
C2_SizeIsMinForCountsFromZero ==
    (Returned /\ num_dps >= 0)
        => Len(lines) = Min(num_dps, Cardinality(PassingPositions))

\* A call that cut the passing records down to a positive requested count.
C2_Witness ==
    /\ Returned
    /\ num_dps >= 1
    /\ Cardinality(PassingPositions) > num_dps
    /\ Len(lines) = num_dps

(***************************************************************************)
(* C3: every record dp_transform returns is one of the input records, its  *)
(* system string and message contents unchanged.                           *)
(***************************************************************************)
C3_OutputFromInput ==
    Returned => \A i \in 1..Len(lines) :
                    \E j \in 1..Len(data_points) : lines[i] = data_points[j]

\* A call that returned some of its input and dropped the rest.
C3_Witness ==
    /\ Returned
    /\ Len(lines) >= 1
    /\ Len(lines) < Len(data_points)
    /\ Cardinality(PassingPositions) < Len(data_points)

(***************************************************************************)
(* C4: the length filter is inclusive at the limit: a record of combined   *)
(* length exactly max_dp_length is retained by the filter (it is in the    *)
(* list that is shuffled), and a record of combined length                 *)
(* max_dp_length + 1 is never returned.                                    *)
(***************************************************************************)
C4_InclusiveAtLimit ==
    Returned =>
        /\ \A j \in 1..Len(data_points) :
              TextLength(data_points[j]) = max_dp_length
                  => data_points[j] \in Range(shuffled)
        /\ \A i \in 1..Len(lines) : TextLength(lines[i]) # max_dp_length + 1

\* A call on a list holding a record exactly at the limit and one just over it.
C4_Witness ==
    /\ Returned
    /\ \E j \in 1..Len(data_points) : TextLength(data_points[j]) = max_dp_length
    /\ \E j \in 1..Len(data_points) : TextLength(data_points[j]) = max_dp_length + 1
    /\ \E i \in 1..Len(lines) : TextLength(lines[i]) = max_dp_length

(***************************************************************************)
(* C6: the generator state changes the order of the records that pass the  *)
(* length filter, never which records they are: whatever the generator     *)
(* state, the list before truncation holds each record exactly as often as *)
(* the input holds it within the limit.                                    *)
(***************************************************************************)
C6_SeedKeepsFiltering ==
    Returned =>
        /\ Len(shuffled) = Cardinality(PassingPositions)
        /\ \A r \in Range(data_points) \cup Range(shuffled) :
              Occurrences(shuffled, r)
                  = Cardinality({j \in PassingPositions : data_points[j] = r})

\* A call whose shuffle put two different passing records in another order
\* than the input's.
C6_Witness ==
    /\ Returned
    /\ Len(shuffled) >= 2
    /\ Cardinality(PassingPositions) = Len(data_points)
    /\ shuffled # data_points

(***************************************************************************)
(* C7: for a list of one record within the limit, dp_transform with        *)
(* num_dps = 1 returns exactly that record, and jsonl_converter then       *)
(* leaves a file of exactly one line, which reads back as that record.     *)
(***************************************************************************)
SingleRecordCase ==
    /\ Len(data_points) = 1
    /\ RecError(data_points[1]) = "none"
    /\ TextLength(data_points[1]) <= max_dp_length
    /\ num_dps = 1

C7_SingleRecordEndToEnd ==
    SingleRecordCase =>
        /\ pc # "raised"
        /\ pc \in {"write", "written"} => lines = data_points
        /\ pc = "written" =>
              /\ Len(FileLines(fs[file_name])) = 1
              /\ Loads(FileLines(fs[file_name])[1])
                     = [ok |-> TRUE, value |-> data_points[1]]

\* The file written for a single record whose user content holds a newline.
C7_Witness ==
    /\ SingleRecordCase
    /\ pc = "written"
    /\ "NL" \in Range(data_points[1].messages[1].content)

(***************************************************************************)
(* C8, as stated: dp_transform has no failure modes; every call completes  *)
(* and returns a list.                                                     *)
(***************************************************************************)
C8_NeverRaises == outcome \in {"none", "returned"}

(***************************************************************************)
(* Vocabulary of the properties of the run.                                *)
(***************************************************************************)
CellOrder ==
    <<"load_dataset", "build_train", "build_valid", "build_test", "transform_train",
      "transform_valid", "transform_test", "convert_train", "convert_valid",
      "convert_test", "upload_train">>

\* The run has completed the cell (or call) named c.
Past(c) ==
    \E i, j \in 1..Len(CellOrder) : CellOrder[i] = c /\ CellOrder[j] = pc /\ i < j

\* The generator state k draws after g.
RECURSIVE Advance(_, _)
Advance(g, k) == IF k = 0 THEN g ELSE Advance(NextRng(g), k - 1)

\* The draws one call makes: one per record within the limit beyond the first.
Draws(dps) ==
    Max(0, Cardinality({j \in 1..Len(dps) : TextLength(dps[j]) <= MaxDpLength}) - 1)

\* What the call would return as the first call of the kernel.
AsFirstCall(dps, n) == dp_transform(dps, n, MaxDpLength, seed).lines

(***************************************************************************)
(* C9, as stated: dp_transform retains no state across calls, the shared   *)
(* generator state included: each of the three successive calls returns    *)
(* what it would return as a first call.                                   *)
(***************************************************************************)
C9_EachCallAsFirstCall ==
    /\ Past("transform_train") => train = AsFirstCall(datapoints_train, NumTrain)
    /\ Past("transform_valid") => validation = AsFirstCall(datapoints_valid, NumValid)
    /\ Past("transform_test") => test = AsFirstCall(datapoints_test, NumTest)

(***************************************************************************)
(* C9, amended: the only state a call of dp_transform leaves behind is the *)
(* shared generator state, advanced by one index draw per record within    *)
(* the limit beyond the first; each of the three successive calls returns  *)
(* what a first call would return from the generator state the calls       *)
(* before it left, not from the state the kernel started with.             *)
(***************************************************************************)
C9_CallsLinkedByGeneratorOnly ==
    /\ Past("transform_train") =>
          /\ train = AsFirstCall(datapoints_train, NumTrain)
          /\ ~ Past("transform_valid") => rng = Advance(seed, Draws(datapoints_train))
    /\ Past("transform_valid") =>
          /\ validation
                = dp_transform(datapoints_valid, NumValid, MaxDpLength,
                               Advance(seed, Draws(datapoints_train))).lines
          /\ ~ Past("transform_test")
                => rng = Advance(seed, Draws(datapoints_train) + Draws(datapoints_valid))
    /\ Past("transform_test") =>
          /\ test
                = dp_transform(datapoints_test, NumTest, MaxDpLength,
                               Advance(seed, Draws(datapoints_train)
                                                 + Draws(datapoints_valid))).lines
          /\ rng = Advance(seed, Draws(datapoints_train) + Draws(datapoints_valid)
                                     + Draws(datapoints_test))

\* A run whose training call left the generator in a state that changed what
\* the validation call returned.
C9_Witness ==
    /\ Past("transform_test")
    /\ validation # AsFirstCall(datapoints_valid, NumValid)
    /\ Len(train) >= 2

(***************************************************************************)
(* C10: the record-building loops give one record per dataset row, in      *)
(* dataset order; each record has the fixed system string and exactly two  *)
(* messages: role 'user' with the instruction header followed by the row's *)
(* dialogue, then role 'assistant' with the row's summary.                 *)
(***************************************************************************)
IsRecordOfRow(rec, row) ==
    /\ DOMAIN rec = {"system", "messages"}
    /\ rec.system = system_string
    /\ Len(rec.messages) = 2
    /\ rec.messages[1].role = "user"
    /\ Len(rec.messages[1].content) = Len(instruction) + Len(row.dialogue)
    /\ SubSeq(rec.messages[1].content, 1, Len(instruction)) = instruction
    /\ SubSeq(rec.messages[1].content, Len(instruction) + 1,
              Len(rec.messages[1].content)) = row.dialogue
    /\ rec.messages[2].role = "assistant"
    /\ rec.messages[2].content = row.summary

OneRecordPerRow(dps, split) ==
    /\ Len(dps) = Len(split)
    /\ \A i \in 1..Len(split) : IsRecordOfRow(dps[i], split[i])

C10_OneRecordPerRow ==
    /\ Past("build_train") => OneRecordPerRow(datapoints_train, dataset.train)
    /\ Past("build_valid") => OneRecordPerRow(datapoints_valid, dataset.validation)
    /\ Past("build_test") => OneRecordPerRow(datapoints_test, dataset.test)

\* The three lists built from a dataset whose training split has two
\* different rows.
C10_Witness ==
    /\ Past("build_test")
    /\ Len(dataset.train) >= 2
    /\ dataset.train[1] # dataset.train[2]
    /\ Len(dataset.validation) >= 1
    /\ Len(dataset.test) >= 1

(***************************************************************************)
(* C11: jsonl_converter serializes one record per line: after it returns,  *)
(* the file holds exactly len(dataset) lines, line i is the serialization  *)
(* of the i-th record, and reading the file back line by line yields the   *)
(* same records in the same order.                                         *)
(***************************************************************************)
\* The file read back: json.loads of each of its lines.
ReadBack(text) ==
    LET read == FileLines(text)
    IN  [i \in 1..Len(read) |-> Loads(read[i])]

C11_OneRecordPerLine ==
    pc = "written" =>
        /\ Len(FileLines(fs[file_name])) = Len(lines)
        /\ \A i \in 1..Len(lines) : FileLines(fs[file_name])[i] = Dumps(lines[i])
        /\ ReadBack(fs[file_name]) = [i \in 1..Len(lines) |-> [ok |-> TRUE, value |-> lines[i]]]

\* A file of two different records, one of them with a newline in its text.
C11_Witness ==
    /\ pc = "written"
    /\ Len(lines) = 2
    /\ lines[1] # lines[2]
    /\ \E i \in 1..2 : "NL" \in Range(lines[i].messages[1].content)

(***************************************************************************)
(* C16, as stated: when more than num_dps records pass the length filter,  *)
(* for every passing record there is a shuffle outcome (a generator state  *)
(* at the call) in which that record is in the output.  Stated of the      *)
(* state right after the call returned (pc = "write").                     *)
(***************************************************************************)
\* What the call of this state returns when the generator is in state g.
OutputFrom(g) == dp_transform(data_points, num_dps, max_dp_length, g).lines

CanBeReturned(j) ==
    \E g \in 0..(RngPeriod - 1) : data_points[j] \in Range(OutputFrom(g))

C16_EveryPassingRecordCanBeReturned ==
    (pc = "write" /\ Cardinality(PassingPositions) > num_dps) =>
        \A j \in PassingPositions : CanBeReturned(j)

(***************************************************************************)
(* C16, amended: the same for num_dps >= 1; a count of 0 (or a negative    *)
(* count that drops every passing record) leaves an empty output whatever  *)
(* the shuffle did.                                                        *)
(***************************************************************************)
C16_EveryPassingRecordCanBeReturnedForPositiveCount ==
    (pc = "write" /\ num_dps >= 1 /\ Cardinality(PassingPositions) > num_dps) =>
        \A j \in PassingPositions : CanBeReturned(j)

\* A call that returned the last passing record in place of the first one.
C16_Witness ==
    /\ pc = "write"
    /\ num_dps = 1
    /\ Cardinality(PassingPositions) >= 2
    /\ \E first, last \in PassingPositions :
          /\ \A j \in PassingPositions : first <= j /\ j <= last
          /\ data_points[first] # data_points[last]
          /\ lines = <<data_points[last]>>

(***************************************************************************)
(* Vocabulary of the properties of a run: the events of the SDK calls.     *)
(***************************************************************************)
\* The positions of the events of one kind for one method.
EventsOf(kind, op) ==
    {i \in 1..Len(events) : events[i].kind = kind /\ events[i].op = op}

Kinds(kind) == {i \in 1..Len(events) : events[i].kind = kind}

\* The calls that were invoked and have neither returned nor raised.
Outstanding == Cardinality(Kinds("invoke")) - Cardinality(Kinds("return"))
                   - Cardinality(Kinds("raise"))

\* The latest call that was invoked, when there is one.
Invoked == Kinds("invoke") # {}

LatestInvoke == events[CHOOSE i \in Kinds("invoke") : \A j \in Kinds("invoke") : j <= i]

ExternalCalls ==
    {"retrieve", "converse", "create_bucket", "create_role", "create_policy",
     "attach_role_policy", "upload_file"}

(***************************************************************************)
(* C12: nothing catches the failure of an external call: once a call has   *)
(* raised, the run has ended at that step (the raise is the last event, no *)
(* call is under way, no later call was made) and none of the seven        *)
(* identifiers is in the %store database.                                  *)
(***************************************************************************)
C12_RaiseEndsTheRun ==
    \A i \in Kinds("raise") :
        /\ events[i].op \in ExternalCalls
        /\ i = Len(events)
        /\ events[i - 1] = Event("invoke", events[i].op, events[i - 1].payload)
        /\ pc = "raised"
        /\ attempt = 0
        /\ DOMAIN stored \cap StoredNames = {}

\* The upload of the validation file raised, after the role, the policy and
\* the training upload went through.
C12_Witness ==
    /\ pc = "raised"
    /\ Last(events).kind = "raise"
    /\ Last(events).op = "upload_file"
    /\ Cardinality(EventsOf("invoke", "upload_file")) = 2
    /\ role_arn # <<>>

(***************************************************************************)
(* C13, as stated: there is no retry policy: every external call is        *)
(* attempted at most once, and a failed attempt is never re-issued (no     *)
(* call ever sends its request a second time).                             *)
(***************************************************************************)
C13_EveryCallAttemptedOnce == attempt <= 1 /\ Len(sent) <= 1

(***************************************************************************)
(* C13, amended: the notebooks add no retry of their own: each client      *)
(* method is invoked at most once per step (once per notebook, upload_file *)
(* once per key) and never after a call has raised; the Retrieve request   *)
(* is sent at most once, its client being built with max_attempts 0; the   *)
(* requests of the other calls are re-sent by the SDK alone, the same      *)
(* request each time, within the default retries of their clients.         *)
(***************************************************************************)
C13_NoRetryByTheNotebooks ==
    /\ \A i, j \in Kinds("invoke") :
          (events[i].op = events[j].op /\ events[i].payload = events[j].payload) => i = j
    /\ \A op \in ExternalCalls \ {"upload_file"} : Cardinality(EventsOf("invoke", op)) <= 1
    /\ \A i \in Kinds("raise") : \A j \in Kinds("invoke") : j < i
    /\ (Invoked /\ LatestInvoke.op = "retrieve") => Len(sent) = 1
    /\ Len(sent) <= 1 + SdkDefaultRetries
    /\ \A k \in 1..Len(sent) : sent[k] = sent[1]

\* An answered question whose Converse request went out twice.
C13_Witness ==
    /\ pc = "answered"
    /\ Cardinality(EventsOf("invoke", "retrieve")) = 1
    /\ LatestInvoke.op = "converse"
    /\ Len(sent) = 2

(***************************************************************************)
(* C14: when the data preparation notebook has completed, the %store       *)
(* database holds the seven identifiers, and they are the values the       *)
(* resource calls used: bucket_name is the bucket of create_bucket and of  *)
(* every upload_file, role_name the name given to create_role and to       *)
(* attach_role_policy, role_arn the ARN create_role returned, policy_arn   *)
(* the ARN create_policy returned and attach_role_policy was given.        *)
(***************************************************************************)
\* The only event of that kind for that method.
TheEvent(kind, op) == events[CHOOSE i \in EventsOf(kind, op) : TRUE]

C14_StoredIdentifiersAreTheOnesUsed ==
    pc = "done" =>
        /\ StoredNames \subseteq DOMAIN stored
        /\ Cardinality(EventsOf("invoke", "upload_file")) = 3
        /\ \A op \in {"create_bucket", "create_role", "create_policy", "attach_role_policy"} :
              Cardinality(EventsOf("invoke", op)) = 1 /\ Cardinality(EventsOf("return", op)) = 1
        /\ stored.bucket_name = TheEvent("invoke", "create_bucket").payload.Bucket
        /\ \A i \in EventsOf("invoke", "upload_file") :
              stored.bucket_name = events[i].payload.Bucket
        /\ stored.role_name = TheEvent("invoke", "create_role").payload.RoleName
        /\ stored.role_name = TheEvent("invoke", "attach_role_policy").payload.RoleName
        /\ stored.role_arn = TheEvent("return", "create_role").payload.Role.Arn
        /\ stored.policy_arn = TheEvent("return", "create_policy").payload.Policy.Arn
        /\ stored.policy_arn = TheEvent("invoke", "attach_role_policy").payload.PolicyArn

\* A completed run whose database kept the knowledge base id it held before.
C14_Witness ==
    /\ pc = "done"
    /\ DOMAIN stored = StoredNames \cup {"bedrock_kb_id"}
    /\ stored.role_arn # stored.policy_arn

(***************************************************************************)
(* C15: a call retrieve(user_query, kb_id, num_of_results) sends exactly   *)
(* one Retrieve request; its query text is user_query, its knowledge base  *)
(* id is kb_id (the bedrock_kb_id restored from the store), its            *)
(* numberOfResults is num_of_results, or 5 when the caller gave none, its  *)
(* search type is HYBRID; and what the service answered is what the caller *)
(* receives.                                                               *)
(***************************************************************************)
C15_OneRetrieveRequestAsAsked ==
    (Invoked /\ LatestInvoke.op = "retrieve") =>
        LET args == LatestInvoke.payload
            cfg  == sent[1].retrievalConfiguration.vectorSearchConfiguration
        IN  /\ Len(sent) = 1
            /\ args.user_query = user_query
            /\ args.kb_id = stored.bedrock_kb_id
            /\ sent[1].retrievalQuery.text = args.user_query
            /\ sent[1].knowledgeBaseId = args.kb_id
            /\ cfg.numberOfResults =
                  (IF "num_of_results" \in DOMAIN args THEN args.num_of_results ELSE 5)
            /\ cfg.overrideSearchType = "HYBRID"
            /\ DOMAIN sent[1] = {"retrievalQuery", "knowledgeBaseId", "retrievalConfiguration"}
            /\ pc = "contexts" =>
                  /\ Last(events) = Event("return", "retrieve", Last(events).payload)
                  /\ response = Last(events).payload

\* A call with the count of the cell that returned two results.
C15_Witness ==
    /\ pc = "contexts"
    /\ LatestInvoke.op = "retrieve"
    /\ "num_of_results" \in DOMAIN LatestInvoke.payload
    /\ sent[1].retrievalConfiguration.vectorSearchConfiguration.numberOfResults = 3
    /\ Len(response.retrievalResults) = 2

(***************************************************************************)
(* C17: attach_role_policy is invoked only after create_role and           *)
(* create_policy have both returned, with the policy ARN that this         *)
(* create_policy returned and the role name that this create_role was      *)
(* given; nothing is attached that this run did not create.                *)
(***************************************************************************)
C17_AttachAfterBothCreated ==
    \A i \in EventsOf("invoke", "attach_role_policy") :
        /\ \E j \in EventsOf("return", "create_role") : j < i
        /\ \E j \in EventsOf("invoke", "create_role") :
              j < i /\ events[j].payload.RoleName = events[i].payload.RoleName
        /\ \E j \in EventsOf("return", "create_policy") :
              j < i /\ events[j].payload.Policy.Arn = events[i].payload.PolicyArn
        /\ \A j \in Kinds("raise") : i < j

\* The attachment is under way, for the role and the policy just created.
C17_Witness ==
    /\ pc = "attach_role_policy"
    /\ attempt > 0
    /\ EventsOf("invoke", "attach_role_policy") # {}
    /\ role_arn # <<>> /\ policy_arn # <<>>

(***************************************************************************)
(* C18: every upload_file is invoked after create_bucket has returned and  *)
(* after jsonl_converter has written the file of that split (what the      *)
(* upload sends reads back as the records of the split), and the %store of *)
(* the identifiers happens after the three uploads have returned.          *)
(***************************************************************************)
\* The split whose records the file of that name is written from.
SplitOf(name) ==
    CASE name = train_file_name -> train
      [] name = validation_file_name -> validation
      [] name = test_file_name -> test

C18_UploadAfterBucketAndFile ==
    /\ \A i \in EventsOf("invoke", "upload_file") :
          \E j \in EventsOf("return", "create_bucket") : j < i
    /\ (Invoked /\ LatestInvoke.op = "upload_file") =>
          LET split == SplitOf(LatestInvoke.payload.Filename)
          IN  \A k \in 1..Len(sent) :
                  ReadBack(sent[k].Body)
                      = [i \in 1..Len(split) |-> [ok |-> TRUE, value |-> split[i]]]
    /\ DOMAIN stored \cap StoredNames # {} =>
          {events[i].payload.Filename : i \in EventsOf("invoke", "upload_file")} = FileNames
             /\ Cardinality(EventsOf("return", "upload_file")) = 3

\* The upload of a test file of one record is under way.
C18_Witness ==
    /\ pc = "upload_test"
    /\ attempt > 0
    /\ LatestInvoke.payload.Filename = test_file_name
    /\ Len(test) = 1
    /\ sent[1].Body # <<>>

(***************************************************************************)
(* C19: execution is synchronous: at most one external call is outstanding *)
(* at any time; while a call is outstanding the run is still at the step   *)
(* that invoked it; and a call that is followed by anything is followed    *)
(* first by its own return or raise.                                       *)
(***************************************************************************)
\* The step a call is invoked by.
StepOf(e) ==
    IF e.op # "upload_file" THEN e.op
    ELSE CASE e.payload.Filename = train_file_name -> "upload_train"
           [] e.payload.Filename = validation_file_name -> "upload_validation"
           [] e.payload.Filename = test_file_name -> "upload_test"

C19_OneCallAtATime ==
    /\ Outstanding \in {0, 1}
    /\ \A i \in Kinds("invoke") :
          IF i = Len(events)
          THEN Outstanding = 1 /\ pc = StepOf(events[i])
          ELSE events[i + 1].kind \in {"return", "raise"} /\ events[i + 1].op = events[i].op
    /\ (events # <<>> /\ Last(events).kind # "invoke") => Outstanding = 0

\* The Converse call is outstanding, its request sent a second time.
C19_Witness ==
    /\ Outstanding = 1
    /\ LatestInvoke.op = "converse"
    /\ pc = "converse"
    /\ Len(sent) = 2

(***************************************************************************)
(* C20: the contexts list holds one text per retrieval result of the       *)
(* Retrieve response, in the order returned; the Converse request carries  *)
(* exactly one system block and exactly one user message, whose text is    *)
(* the prompt template filled with those contexts and with the user_query  *)
(* that was sent to Retrieve.                                              *)
(***************************************************************************)
\* The retrieval results the service returned in this run.
Retrieved == TheEvent("return", "retrieve").payload.retrievalResults

C20_PromptFromRetrievedContexts ==
    /\ pc \in {"converse", "answered"} =>
          /\ Len(contexts) = Len(Retrieved)
          /\ \A i \in 1..Len(Retrieved) : contexts[i] = Retrieved[i].content.text
    /\ EventsOf("invoke", "converse") # {} =>
          LET req == TheEvent("invoke", "converse").payload
              asked == TheEvent("invoke", "retrieve").payload.user_query
          IN  /\ Len(req.system) = 1
              /\ Len(req.messages) = 1
              /\ req.messages[1].role = "user"
              /\ Len(req.messages[1].content) = 1
              /\ req.messages[1].content[1].text
                    = Format([i \in 1..Len(Retrieved) |-> Retrieved[i].content.text], asked)
              /\ sent[1] = req

\* An answer to a question for which two different texts were retrieved.
C20_Witness ==
    /\ pc = "answered"
    /\ Len(contexts) = 2
    /\ contexts[1] # contexts[2]
    /\ Len(user_query) = 2

(***************************************************************************)
(* C21: whatever the dataset, the training set has at most NumTrain        *)
(* records, the validation set at most NumValid, the test set at most      *)
(* NumTest (1000, 100 and 10 in the notebook), every record of the three   *)
(* has combined text length at most MaxDpLength (20000), and the three     *)
(* files hold no more lines than that.                                     *)
(***************************************************************************)
WithinLimits(split, count) ==
    /\ Len(split) <= count
    /\ \A i \in 1..Len(split) : TextLength(split[i]) <= MaxDpLength

C21_DatasetsWithinLimits ==
    /\ WithinLimits(train, NumTrain)
    /\ WithinLimits(validation, NumValid)
    /\ WithinLimits(test, NumTest)
    /\ Past("convert_train") => Len(FileLines(fs[train_file_name])) <= NumTrain
    /\ Past("convert_valid") => Len(FileLines(fs[validation_file_name])) <= NumValid
    /\ Past("convert_test") => Len(FileLines(fs[test_file_name])) <= NumTest

\* A training split with more rows within the limit than the count, cut to the
\* count, and a long row dropped from the validation split.
C21_Witness ==
    /\ Past("convert_test")
    /\ Len(dataset.train) > NumTrain
    /\ \A i \in 1..Len(datapoints_train) : TextLength(datapoints_train[i]) <= MaxDpLength
    /\ Len(train) = NumTrain
    /\ Len(dataset.validation) = 1
    /\ validation = <<>>

(***************************************************************************)
(* C22: for num_dps = 0 dp_transform returns the empty list; for a         *)
(* negative num_dps = -k it returns the shuffled passing records without   *)
(* the last k of them, so max(0, P - k) records, P being the number of     *)
(* records within the limit.                                               *)
(***************************************************************************)
\* max(0, P + num_dps)
KeptForNegativeCount ==
    IF Cardinality(PassingPositions) + num_dps > 0
    THEN Cardinality(PassingPositions) + num_dps ELSE 0

C22_ZeroAndNegativeCounts ==
    pc = "write" =>
        /\ num_dps = 0 => lines = <<>>
        /\ num_dps < 0 =>
              /\ Len(shuffled) = Cardinality(PassingPositions)
              /\ Len(lines) = KeptForNegativeCount
              /\ \A i \in 1..Len(lines) : lines[i] = shuffled[i]

\* A call with num_dps = -1 that returned two of three passing records.
C22_Witness ==
    /\ pc = "write"
    /\ num_dps = -1
    /\ Cardinality(PassingPositions) = 3
    /\ Len(lines) = 2
    /\ shuffled[3] # lines[1] /\ shuffled[3] # lines[2]

(***************************************************************************)
(* C23: dp_transform preserves multiplicity: every record value occurs in  *)
(* the output at most as often as in the input, and when num_dps is at     *)
(* least the number of passing records the output is a permutation of the  *)
(* passing records (each value as often as the input holds it within the   *)
(* limit, nothing else).                                                   *)
(***************************************************************************)
C23_MultiplicityPreserved ==
    pc = "write" =>
        /\ \A r \in Range(lines) : Occurrences(lines, r) <= Occurrences(data_points, r)
        /\ num_dps >= Cardinality(PassingPositions) =>
              /\ Len(lines) = Cardinality(PassingPositions)
              /\ \A r \in Range(data_points) \cup Range(lines) :
                    Occurrences(lines, r)
                        = Cardinality({j \in PassingPositions : data_points[j] = r})

\* An input that holds one record twice and another once, all returned, in
\* another order than the input's.
C23_Witness ==
    /\ pc = "write"
    /\ Len(data_points) = 3
    /\ Cardinality(PassingPositions) = 3
    /\ num_dps = 3
    /\ Cardinality(Range(data_points)) = 2
    /\ lines # data_points

(***************************************************************************)
(* C24: dp_transform leaves its argument unchanged: the call, whether it   *)
(* returns or raises, leaves the list data_points with the same length,    *)
(* the same records and the same order.                                    *)
(***************************************************************************)
C24_ArgumentUnchanged == [][pc = "call" => data_points' = data_points]_vars

\* A call whose own list came out of the shuffle in another order than the
\* argument that all of it passed from.
C24_Witness ==
    /\ pc = "write"
    /\ Len(data_points) = 3
    /\ Cardinality(PassingPositions) = 3
    /\ Len(shuffled) = 3
    /\ shuffled # data_points

(***************************************************************************)
(* C25: the length filter measures the system string and the contents of   *)
(* the first two messages only: a record with more than two messages is    *)
(* kept exactly when that sum is within max_dp_length, whatever its later  *)
(* messages hold, so the full text of a kept record can exceed the limit.  *)
(***************************************************************************)
\* The length of all the text of a record.
RECURSIVE FullLengthFrom(_, _)
FullLengthFrom(dp, k) ==
    IF k > Len(dp.messages) THEN Len(dp.system)
    ELSE Len(dp.messages[k].content) + FullLengthFrom(dp, k + 1)

C25_LaterMessagesNotMeasured ==
    (pc = "write" /\ num_dps >= Len(data_points)) =>
        \A j \in 1..Len(data_points) :
            Len(data_points[j].messages) > 2 =>
                ((data_points[j] \in Range(lines))
                    <=> (Len(data_points[j].system)
                           + Len(data_points[j].messages[1].content)
                           + Len(data_points[j].messages[2].content) <= max_dp_length))

\* A returned record of three messages whose full text is over the limit.
C25_Witness ==
    /\ pc = "write"
    /\ \E i \in 1..Len(lines) :
          /\ Len(lines[i].messages) = 3
          /\ FullLengthFrom(lines[i], 1) > max_dp_length

(***************************************************************************)
(* C26: the three splits never mix: every record of the training file was  *)
(* built from a row of dataset['train'], every record of the validation    *)
(* file from a row of dataset['validation'] and every record of the test   *)
(* file from a row of dataset['test'], one row for each written            *)
(* occurrence; a record that no row of a split gives is not in that        *)
(* split's file.                                                           *)
(***************************************************************************)
\* The record of the notebook for one row, stated from the cell's text.
RecordOfRow(row) ==
    [system |-> system_string,
     messages |-> <<[role |-> "user", content |-> instruction \o row.dialogue],
                    [role |-> "assistant", content |-> row.summary]>>]

\* The number of rows of a split whose record is r.
RowsGiving(rows, r) == Cardinality({i \in 1..Len(rows) : RecordOfRow(rows[i]) = r})

\* The number of records read back from a file that are r.
WrittenTimes(back, r) ==
    Cardinality({i \in 1..Len(back) : back[i] = [ok |-> TRUE, value |-> r]})

\* Every line of the file reads back as a record, each occurrence matched by a
\* row of the split of its own.
FromOwnSplit(name, rows) ==
    LET back == ReadBack(fs[name])
    IN  /\ \A i \in 1..Len(back) :
              /\ back[i].ok
              /\ WrittenTimes(back, back[i].value) <= RowsGiving(rows, back[i].value)
        /\ \A row \in Rows :
              RowsGiving(rows, RecordOfRow(row)) = 0 => WrittenTimes(back, RecordOfRow(row)) = 0

C26_EachFileFromItsOwnSplit ==
    /\ Past("convert_train") => FromOwnSplit(train_file_name, dataset.train)
    /\ Past("convert_valid") => FromOwnSplit(validation_file_name, dataset.validation)
    /\ Past("convert_test") => FromOwnSplit(test_file_name, dataset.test)

\* The statement without its condition: a record built from a row of one split
\* is in no other split's file, whatever the rows of that other split.  Two
\* splits holding the same row give the same record, written to both files.
NoneOf(name, rows) ==
    LET back == ReadBack(fs[name])
    IN  \A i \in 1..Len(rows) : WrittenTimes(back, RecordOfRow(rows[i])) = 0

C26_NoRecordInAnotherSplitsFile ==
    /\ C26_EachFileFromItsOwnSplit
    /\ Past("convert_train") =>
          NoneOf(train_file_name, dataset.validation) /\ NoneOf(train_file_name, dataset.test)
    /\ Past("convert_valid") =>
          NoneOf(validation_file_name, dataset.train) /\ NoneOf(validation_file_name, dataset.test)
    /\ Past("convert_test") =>
          NoneOf(test_file_name, dataset.train) /\ NoneOf(test_file_name, dataset.validation)

\* The three files written, the training and the validation file each holding
\* a record that no row of the other split gives.
C26_Witness ==
    /\ Past("convert_test")
    /\ \E row \in Rows :
          /\ WrittenTimes(ReadBack(fs[train_file_name]), RecordOfRow(row)) > 0
          /\ RowsGiving(dataset.validation, RecordOfRow(row)) = 0
    /\ \E row \in Rows :
          /\ WrittenTimes(ReadBack(fs[validation_file_name]), RecordOfRow(row)) > 0
          /\ RowsGiving(dataset.train, RecordOfRow(row)) = 0
    /\ Len(dataset.test) > 0

(***************************************************************************)
(* C27: each persisted S3 URI names the object that was uploaded: for      *)
(* train, validation and test the stored URI is 's3://' + bucket + '/' +   *)
(* key, bucket and key being those given to the upload_file call of that   *)
(* split's file, and the three keys are pairwise different.                *)
(***************************************************************************)
\* The upload_file calls made for one local file.
UploadsOf(name) ==
    {i \in EventsOf("invoke", "upload_file") : events[i].payload.Filename = name}

\* 's3://' + Bucket + '/' + Key of the call at position i.
ObjectUri(i) ==
    <<"s3://">> \o events[i].payload.Bucket \o <<"/">> \o events[i].payload.Key

UriNamesUpload(uri, name) ==
    /\ Cardinality(UploadsOf(name)) = 1
    /\ \A i \in UploadsOf(name) : stored[uri] = ObjectUri(i)

C27_StoredUrisNameTheUploads ==
    pc = "done" =>
        /\ UriNamesUpload("s3_train_uri", train_file_name)
        /\ UriNamesUpload("s3_validation_uri", validation_file_name)
        /\ UriNamesUpload("s3_test_uri", test_file_name)
        /\ \A i, j \in EventsOf("invoke", "upload_file") :
              i # j => events[i].payload.Key # events[j].payload.Key

\* The run of the data-prep notebook at its end, the three URIs stored and
\* different from one another.
C27_Witness ==
    /\ pc = "done"
    /\ Cardinality(EventsOf("return", "upload_file")) = 3
    /\ {"s3_train_uri", "s3_validation_uri", "s3_test_uri"} \subseteq DOMAIN stored
    /\ Cardinality({stored.s3_train_uri, stored.s3_validation_uri, stored.s3_test_uri}) = 3

(***************************************************************************)
(* C28: in a top-to-bottom run every read of the shared variable response  *)
(* observes the result of the intended call: role_arn is read from the     *)
(* create_role response before create_policy overwrites it, policy_arn     *)
(* from the create_policy response, and the contexts are extracted from    *)
(* the Retrieve response before the Converse response overwrites it; the   *)
(* extraction run again after the Converse step reads a response without   *)
(* retrievalResults and fails.                                             *)
(***************************************************************************)
\* What the call of a method returned in this run.
ResultOf(op) == TheEvent("return", op).payload

\* The texts of the retrieval results of this run.
RetrievedTexts ==
    [i \in 1..Len(ResultOf("retrieve").retrievalResults) |->
        ResultOf("retrieve").retrievalResults[i].content.text]

\* The extraction was run again after the answer and raised.
ExtractionFailedAgain ==
    pc = "raised" /\ outcome = "KeyError" /\ EventsOf("return", "converse") # {}

C28_ReadsOfResponseObserveTheIntendedCall ==
    /\ pc = "role_arn" => response = ResultOf("create_role")
    /\ pc \in {"create_policy", "policy_arn", "attach_role_policy"} =>
          role_arn = ResultOf("create_role").Role.Arn
    /\ pc = "policy_arn" =>
          response = ResultOf("create_policy") /\ response # ResultOf("create_role")
    /\ pc = "attach_role_policy" => policy_arn = ResultOf("create_policy").Policy.Arn
    /\ pc = "contexts" => response = ResultOf("retrieve")
    /\ pc \in {"converse", "answered"} => contexts = RetrievedTexts
    /\ pc = "answered" =>
          /\ response = ResultOf("converse")
          /\ "retrievalResults" \notin DOMAIN response
    /\ pc # "contexts_again"
    /\ ExtractionFailedAgain =>
          /\ response = ResultOf("converse")
          /\ contexts = RetrievedTexts

\* The extraction run again after an answer to a retrieval of two texts: it
\* raised and the contexts of the first extraction are still in place.
C28_Witness ==
    /\ ExtractionFailedAgain
    /\ Len(contexts) = 2
    /\ "output" \in DOMAIN response

(***************************************************************************)
(* C29: jsonl_converter replaces the target file and does not append to    *)
(* it: a second call on the same file name leaves exactly the lines of the *)
(* second call's dataset, so writing the same dataset twice gives the file *)
(* of writing it once, and an empty dataset leaves a file of zero lines.   *)
(***************************************************************************)
\* The file named file_name after one more call of jsonl_converter on it.
WrittenAgain(ds) == jsonl_converter(ds, file_name, fs)[file_name]

\* The file the call of this run wrote holds the lines of the records `lines`,
\* in their order (C11 reads each of them back).  A second call is given the
\* same records, one record less (the first dropped), and none.
C29_SecondCallReplacesTheFile ==
    pc = "written" =>
        /\ jsonl_converter(lines, file_name, fs) = fs
        /\ lines # <<>> =>
              FileLines(WrittenAgain(Tail(lines))) = Tail(FileLines(fs[file_name]))
        /\ FileLines(WrittenAgain(<<>>)) = <<>>

\* A file of two different records, written over an earlier run's file, about
\* to be written again with the second of them alone.
C29_Witness ==
    /\ pc = "written"
    /\ Len(FileLines(fs[file_name])) = 2
    /\ lines[1] # lines[2]
    /\ FileLines(WrittenAgain(Tail(lines))) # FileLines(fs[file_name])

====
